---- MODULE Spec2Model ----
(***************************************************************************)
(* search_query: the Query tree (construction, structural validation and   *)
(* the WoS / PubMed / IEEE / pre-notation serializers of query.py) and the *)
(* raw-string linters of parser_validation.py.                             *)
(*                                                                         *)
(* Node objects live in a heap ("nodes"), addressed by their index, so     *)
(* that object identity and sharing are visible.  A Python string produced *)
(* by a serializer is modelled as the sequence of its lexical pieces       *)
(* (a term, an operator name, a field code, or one punctuation character); *)
(* a raw query string of the linters is a sequence of characters.          *)
(***************************************************************************)
EXTENDS Integers, Sequences, FiniteSets, TLC

VARIABLES
    nodes,            \* heap of Node objects: index -> Node record
    queries,          \* successfully constructed Query objects: query_tree.root
    last,             \* the most recent Query constructor call and its outcome
    passed,           \* Query objects handed to any constructor call so far
    calls,            \* number of Query constructor calls so far
    printed,          \* the most recent to_string call and its outcome
    validators,       \* validator instances: class, query_str, search_field_general
    linter_messages,  \* the class-level linter_messages list of each class
    lint_call         \* the most recent check call, its arguments and pre-state

vars == <<nodes, queries, last, passed, calls, printed, validators, linter_messages, lint_call>>

query_vars == <<nodes, queries, last, passed, calls, printed>>
lint_vars == <<validators, linter_messages, lint_call>>

(***************************************************************************)
(* Bounds                                                                  *)
(***************************************************************************)
MaxCalls == 3
MaxNested == 2
MaxSerialCalls == 2
MaxSerialNested == 1
MaxOperatorPieces == 3
MaxFieldPieces == 3
MaxInstances == 2

(***************************************************************************)
(* Generic helpers                                                         *)
(***************************************************************************)
Range(s) == {s[i] : i \in 1..Len(s)}

SeqsUpTo(S, n) == UNION {[1..k -> S] : k \in 0..n}

Count(x, s) == Cardinality({i \in 1..Len(s) : s[i] = x})

(***************************************************************************)
(* Node and Tree                                                           *)
(***************************************************************************)
Node(value, operator, search_field) ==
    [value        |-> value,
     operator     |-> operator,
     search_field |-> search_field,
     children     |-> <<>>,
     marked       |-> FALSE]

RECURSIVE Reachable(_, _)
Reachable(h, node) ==
    {node} \cup UNION {Reachable(h, h[node].children[i]) : i \in 1..Len(h[node].children)}

\* Tree.remove_all_marks: clear the mark of every node of the tree
remove_all_marks(h, root) ==
    LET tree == Reachable(h, root)
    IN  [n \in DOMAIN h |-> IF n \in tree THEN [h[n] EXCEPT !.marked = FALSE] ELSE h[n]]

RECURSIVE remove_marks_of(_, _, _)
remove_marks_of(h, roots, i) ==
    IF i > Len(roots) THEN h
    ELSE remove_marks_of(remove_all_marks(h, roots[i]), roots, i + 1)

(***************************************************************************)
(* Query construction                                                      *)
(***************************************************************************)
RECURSIVE create_term_nodes(_, _, _, _, _)
create_term_nodes(h, root, children_list, search_field, i) ==
    IF i > Len(children_list) THEN h
    ELSE LET term_node == Len(h) + 1
             h1 == Append(h, Node(children_list[i], FALSE, search_field))
             h2 == [h1 EXCEPT ![root].children = Append(@, term_node)]
         IN  create_term_nodes(h2, root, children_list, search_field, i + 1)

RECURSIVE append_nested(_, _, _, _)
append_nested(h, root, nested_roots, i) ==
    IF i > Len(nested_roots) THEN h
    ELSE append_nested([h EXCEPT ![root].children = Append(@, nested_roots[i])],
                       root, nested_roots, i + 1)

\* building that links the nested roots before it creates the term nodes
build_nested_first(h, root, search_terms, nested_roots, search_field) ==
    LET h1 == IF nested_roots # <<>> THEN append_nested(h, root, nested_roots, 1) ELSE h
    IN  IF search_terms # <<>>
        THEN create_term_nodes(h1, root, search_terms, search_field, 1)
        ELSE h1

build_query_tree(h, root, search_terms, nested_roots, search_field) ==
    LET h1 == IF search_terms # <<>>
              THEN create_term_nodes(h, root, search_terms, search_field, 1)
              ELSE h
    IN  IF nested_roots # <<>> THEN append_nested(h1, root, nested_roots, 1) ELSE h1

\* validation that marks the node it is given and never descends
validate_root_only(st, node) ==
    IF st.raised THEN st
    ELSE IF st.heap[node].marked THEN [st EXCEPT !.raised = TRUE]
    ELSE [st EXCEPT !.heap[node].marked = TRUE]

RECURSIVE validate_tree_structure(_, _)
RECURSIVE validate_children(_, _, _)
\* st = [heap, raised]: the heap with the marks set so far, and whether
\* ValueError("Building Query Tree failed") has been raised
validate_tree_structure(st, node) ==
    IF st.raised THEN st
    ELSE IF st.heap[node].marked THEN [st EXCEPT !.raised = TRUE]
    ELSE validate_children([st EXCEPT !.heap[node].marked = TRUE], node, 1)

validate_children(st, node, i) ==
    IF st.raised \/ i > Len(st.heap[node].children) THEN st
    ELSE validate_children(validate_tree_structure(st, st.heap[node].children[i]),
                           node, i + 1)

NoCall ==
    [called |-> FALSE, operator |-> "", search_terms |-> <<>>,
     nested_queries |-> <<>>, search_field |-> "", raised |-> FALSE,
     passed_before |-> {}]

NotPrinted == [called |-> FALSE, query |-> 0, syntax |-> "", raised |-> FALSE, str |-> <<>>]

\* Query.__init__(operator, search_terms, nested_queries, search_field);
\* nested_queries is a list of indices into queries
Query_init(operator, search_terms, nested_queries, search_field) ==
    LET root == Len(nodes) + 1
        nested_roots == [i \in 1..Len(nested_queries) |-> queries[nested_queries[i]]]
        h0 == Append(nodes, Node(operator, TRUE, search_field))
        h1 == build_query_tree(h0, root, search_terms, nested_roots, search_field)
        v  == validate_tree_structure([heap |-> h1, raised |-> FALSE], root)
        h2 == remove_marks_of(remove_all_marks(v.heap, root), nested_roots, 1)
    IN  /\ operator \in {"AND", "OR", "NOT"}
        /\ IF v.raised
           THEN \* the exception leaves __init__: the new object is dropped,
                \* the marks set so far stay on the nodes that are still referenced
                /\ nodes' = SubSeq(v.heap, 1, Len(nodes))
                /\ queries' = queries
           ELSE /\ nodes' = h2
                /\ queries' = Append(queries, root)
        /\ last' = [called |-> TRUE, operator |-> operator, search_terms |-> search_terms,
                    nested_queries |-> nested_queries, search_field |-> search_field,
                    raised |-> v.raised, passed_before |-> passed]
        /\ passed' = passed \cup Range(nested_queries)
        /\ calls' = calls + 1
        /\ printed' = NotPrinted
        /\ UNCHANGED lint_vars

(***************************************************************************)
(* Serializers                                                             *)
(* "child == node.children[0]" compares Node objects: Node defines no      *)
(* equality of its own, so it is identity, here equality of heap indices.  *)
(***************************************************************************)
\* the value a field-code lookup has when no branch of its if/elif chain
\* assigns result: "return result" raises UnboundLocalError
Unbound == "<UnboundLocalError>"

get_search_field_wos(search_field) ==
    IF search_field = "Author Keywords" THEN "AK"
    ELSE IF search_field = "Abstract" THEN "AB"
    ELSE IF search_field = "Author" THEN "AU"
    ELSE IF search_field = "DOI" THEN "DO"
    ELSE IF search_field = "ISBN/ISSN" THEN "IS"
    ELSE IF search_field = "Publisher" THEN "PUBL"
    ELSE IF search_field = "Title" THEN "TI"
    ELSE Unbound

get_search_field_pubmed(search_field) ==
    IF search_field = "Author Keywords" THEN "ot"
    ELSE IF search_field = "Abstract" THEN "tiab"
    ELSE IF search_field = "Author" THEN "au"
    ELSE IF search_field = "DOI" THEN "aid"
    ELSE IF search_field = "ISBN/ISSN" THEN "isbn"
    ELSE IF search_field = "Publisher" THEN "pubn"
    ELSE IF search_field = "Title" THEN "ti"
    ELSE Unbound

RECURSIVE print_query_pre_notation(_, _)
RECURSIVE pre_notation_loop(_, _, _, _)
print_query_pre_notation(h, node) ==
    IF h[node].children = <<>> THEN <<h[node].value>>
    ELSE pre_notation_loop(h, node, 1, <<h[node].value, "[">>) \o <<"]">>

pre_notation_loop(h, node, i, result) ==
    LET ch == h[node].children
    IN  IF i > Len(ch) THEN result
        ELSE LET child == ch[i]
                 a == result \o print_query_pre_notation(h, child)
             IN  pre_notation_loop(h, node, i + 1,
                     IF child # ch[Len(ch)] THEN a \o <<",", " ">> ELSE a)

RECURSIVE print_query_wos(_, _)
RECURSIVE wos_loop(_, _, _, _)
print_query_wos(h, node) == wos_loop(h, node, 1, <<>>)

wos_loop(h, node, i, result) ==
    LET ch == h[node].children
    IN  IF i > Len(ch) THEN result
        ELSE LET child == ch[i]
                 c     == h[child]
                 first == child = ch[1]
                 final == child = ch[Len(ch)]
                 term  == LET a == IF first /\ ~final
                                   THEN result \o <<get_search_field_wos(c.search_field),
                                                    "=", "(", c.value>>
                                   ELSE result \o <<" ", h[node].value, " ", c.value>>
                          IN  IF final THEN a \o <<")">> ELSE a
                 oper  == LET a == IF c.value = "NOT"
                                   THEN result \o print_query_wos(h, child)
                                   ELSE IF first /\ ~final
                                   THEN result \o <<"(">> \o print_query_wos(h, child)
                                   ELSE result \o <<" ", h[node].value, " ">>
                                               \o print_query_wos(h, child)
                          IN  IF final /\ c.value # "NOT" THEN a \o <<")">> ELSE a
             IN  wos_loop(h, node, i + 1, IF ~c.operator THEN term ELSE oper)

RECURSIVE print_query_pubmed(_, _)
RECURSIVE pubmed_loop(_, _, _, _)
print_query_pubmed(h, node) == pubmed_loop(h, node, 1, <<>>)

pubmed_loop(h, node, i, result) ==
    LET ch == h[node].children
    IN  IF i > Len(ch) THEN result
        ELSE LET child == ch[i]
                 c     == h[child]
                 first == child = ch[1]
                 final == child = ch[Len(ch)]
                 field == <<"[", get_search_field_pubmed(c.search_field), "]">>
                 term  == LET a == IF first /\ ~final
                                   THEN result \o <<"(", c.value>> \o field
                                   ELSE result \o <<" ", h[node].value, " ", c.value>>
                                               \o field
                          IN  IF final THEN a \o <<")">> ELSE a
                 oper  == LET a == IF c.value = "NOT"
                                   THEN result \o print_query_pubmed(h, child)
                                   ELSE IF first /\ ~final
                                   THEN result \o <<"(">> \o print_query_pubmed(h, child)
                                   ELSE result \o <<" ", h[node].value, " ">>
                                               \o print_query_pubmed(h, child)
                          IN  IF final /\ c.value # "NOT" THEN a \o <<")">> ELSE a
             IN  pubmed_loop(h, node, i + 1, IF ~c.operator THEN term ELSE oper)

RECURSIVE print_query_ieee(_, _)
RECURSIVE ieee_loop(_, _, _, _, _)
print_query_ieee(h, node) == ieee_loop(h, node, 1, Len(h[node].children), <<>>)

\* the loop of _print_query_ieee over the children i..n of node; result is
\* the string accumulated before child i
ieee_loop(h, node, i, n, result) ==
    LET ch == h[node].children
    IN  IF i > n THEN result
        ELSE LET child == ch[i]
                 c     == h[child]
                 first == child = ch[1]
                 final == child = ch[Len(ch)]
                 term  == LET a == IF first /\ ~final
                                   THEN LET r == result \o <<"(", "\"", c.search_field,
                                                             "\"", ":", c.value>>
                                        IN  IF h[ch[i + 1]].operator
                                            THEN <<"(">> \o r \o <<")">>
                                            ELSE r
                                   ELSE LET r == result \o <<" ", h[node].value, " ", "\"",
                                                             c.search_field, "\"", ":",
                                                             c.value>>
                                        IN  IF ~final /\ h[ch[i + 1]].operator
                                            THEN <<"(">> \o r \o <<")">>
                                            ELSE r
                          IN  IF final THEN a \o <<")">> ELSE a
                 oper  == IF first /\ ~final
                          THEN result \o print_query_ieee(h, child)
                          ELSE result \o <<" ", h[node].value, " ">>
                                      \o print_query_ieee(h, child)
             IN  ieee_loop(h, node, i + 1, n, IF ~c.operator THEN term ELSE oper)

\* Query.to_string: the string, or raised when an exception leaves the call
to_string(h, root, syntax) ==
    LET str == IF syntax = "pre_notation" THEN print_query_pre_notation(h, root)
               ELSE IF syntax = "wos" THEN print_query_wos(h, root)
               ELSE IF syntax = "pubmed" THEN print_query_pubmed(h, root)
               ELSE IF syntax = "ieee" THEN print_query_ieee(h, root)
               ELSE <<>>
        raised == \/ syntax \notin {"pre_notation", "wos", "pubmed", "ieee"}
                  \/ Unbound \in Range(str)
    IN  [raised |-> raised, str |-> IF raised THEN <<>> ELSE str]

\* a call query.to_string(syntax) on the q-th constructed Query
CallToString(q, syntax) ==
    LET r == to_string(nodes, queries[q], syntax)
    IN  /\ printed' = [called |-> TRUE, query |-> q, syntax |-> syntax,
                       raised |-> r.raised, str |-> r.str]
        /\ UNCHANGED <<nodes, queries, last, passed, calls>>
        /\ UNCHANGED lint_vars

(***************************************************************************)
(* Specifications of the Query tree                                        *)
(***************************************************************************)
Operators == {"AND", "OR", "NOT"}

\* constructor inputs for the structural claims
TreeTermLists == {<<>>, <<"lung">>, <<"lung", "breast">>}
TreeFields == {"Title"}

\* constructor inputs for the serializer claims
SerialTermLists == {<<>>, <<"cancer">>, <<"covid">>, <<"lung", "breast">>}
\* "Journal" is a key of neither field-code table
SerialFields == {"Title", "Abstract", "Journal"}
Syntaxes == {"pre_notation", "wos", "pubmed", "ieee", "ebsco"}

NoValidators == <<>>
NoMessages == [QueryStringValidator |-> <<>>, EBSCOQueryStringValidator |-> <<>>]
NoLintCall ==
    [called |-> FALSE, method |-> "", instance |-> 0, strict |-> FALSE,
     token_type |-> "", previous_token_type |-> "", position |-> <<>>,
     query_str |-> <<>>, messages |-> <<>>, own |-> <<>>]

QueryInit ==
    /\ nodes = <<>>
    /\ queries = <<>>
    /\ last = NoCall
    /\ passed = {}
    /\ calls = 0
    /\ printed = NotPrinted

Init ==
    /\ QueryInit
    /\ validators = NoValidators
    /\ linter_messages = NoMessages
    /\ lint_call = NoLintCall

Construct ==
    /\ calls < MaxCalls
    /\ \E operator \in Operators, search_terms \in TreeTermLists,
          nested_queries \in SeqsUpTo(1..Len(queries), MaxNested),
          search_field \in TreeFields :
          Query_init(operator, search_terms, nested_queries, search_field)

Next == Construct

Spec == Init /\ [][Next]_vars

\* to_string changes nothing but "printed", which the next call overwrites:
\* a call made after a to_string leads where the same call made before it
\* leads, so calls are explored from the states with no to_string pending
ConstructForSerial ==
    /\ calls < MaxSerialCalls
    /\ ~printed.called
    /\ \E operator \in Operators, search_terms \in SerialTermLists,
          nested_queries \in SeqsUpTo(1..Len(queries), MaxSerialNested),
          search_field \in SerialFields :
          Query_init(operator, search_terms, nested_queries, search_field)

Serialize ==
    /\ ~printed.called
    /\ \E q \in 1..Len(queries), syntax \in Syntaxes : CallToString(q, syntax)

NextSerial == ConstructForSerial \/ Serialize

SpecSerial == Init /\ [][NextSerial]_vars

(***************************************************************************)
(* Characters and regular expressions of parser_validation.py              *)
(* A raw string is a sequence of characters; a span (start, end) is the    *)
(* pair of Python offsets of re.Match.span(): it covers s[start+1..end]    *)
(* of the 1-based sequence.                                                *)
(***************************************************************************)
LowerLetters ==
    <<"a", "b", "c", "d", "e", "f", "g", "h", "i", "j", "k", "l", "m",
      "n", "o", "p", "q", "r", "s", "t", "u", "v", "w", "x", "y", "z">>

UpperLetters ==
    <<"A", "B", "C", "D", "E", "F", "G", "H", "I", "J", "K", "L", "M",
      "N", "O", "P", "Q", "R", "S", "T", "U", "V", "W", "X", "Y", "Z">>

Digits == {"0", "1", "2", "3", "4", "5", "6", "7", "8", "9"}

IsLower(c) == \E i \in 1..26 : LowerLetters[i] = c
IsUpper(c) == \E i \in 1..26 : UpperLetters[i] = c

CharUpper(c) ==
    IF IsLower(c) THEN UpperLetters[CHOOSE i \in 1..26 : LowerLetters[i] = c] ELSE c

CharLower(c) ==
    IF IsUpper(c) THEN LowerLetters[CHOOSE i \in 1..26 : UpperLetters[i] = c] ELSE c

\* str.upper()
upper(s) == [i \in 1..Len(s) |-> CharUpper(s[i])]

\* the class \w
IsWordChar(c) == IsLower(c) \/ IsUpper(c) \/ c \in Digits \/ c = "_"

\* boundary test that accepts every offset
AlwaysBoundary(s, p) == TRUE

\* the assertion \b at offset p of s
WordBoundary(s, p) ==
    (p > 0 /\ IsWordChar(s[p])) # (p < Len(s) /\ IsWordChar(s[p + 1]))

\* s[p:] starts with the letters of word, whatever their case
StartsWithIgnoreCase(s, p, word) ==
    /\ p + Len(word) <= Len(s)
    /\ \A k \in 1..Len(word) : CharLower(s[p + k]) = word[k]

\* FAULTY_OPERATOR_REGEX, \b(?:[aA][nN][dD]|[oO][rR]|[nN][oO][tT])\b, tried
\* at offset p: the end of the match, or -1
FAULTY_OPERATOR_REGEX(s, p) ==
    LET alt(word) == /\ StartsWithIgnoreCase(s, p, word)
                     /\ WordBoundary(s, p + Len(word))
    IN  IF ~WordBoundary(s, p) THEN -1
        ELSE IF alt(<<"a", "n", "d">>) THEN p + 3
        ELSE IF alt(<<"o", "r">>) THEN p + 2
        ELSE IF alt(<<"n", "o", "t">>) THEN p + 3
        ELSE -1

\* PARENTHESIS_REGEX, [\(\)]
PARENTHESIS_REGEX(s, p) ==
    IF p < Len(s) /\ s[p + 1] \in {"(", ")"} THEN p + 1 ELSE -1

\* the lookahead (?!S\d+\b) at offset p
RECURSIVE DigitsEnd(_, _)
DigitsEnd(s, p) == IF p < Len(s) /\ s[p + 1] \in Digits THEN DigitsEnd(s, p + 1) ELSE p

NotSavedSearch(s, p) ==
    ~(/\ p < Len(s) /\ s[p + 1] = "S"
      /\ \E e \in (p + 2)..Len(s) :
             /\ e <= DigitsEnd(s, p + 1)
             /\ WordBoundary(s, e))

\* lookahead that never rejects
NoLookahead(s, p) == TRUE

\* the lookahead (?!OR\b) at offset p
NotOr(s, p) ==
    ~(/\ p + 2 <= Len(s) /\ s[p + 1] = "O" /\ s[p + 2] = "R"
      /\ WordBoundary(s, p + 2))

\* UNSUPPORTED_SEARCH_FIELD_REGEX, \b(?!OR\b)\b(?!S\d+\b)[A-Z]{2}\b
UNSUPPORTED_SEARCH_FIELD_REGEX(s, p) ==
    IF /\ WordBoundary(s, p)
       /\ NotOr(s, p)
       /\ NotSavedSearch(s, p)
       /\ p + 2 <= Len(s) /\ IsUpper(s[p + 1]) /\ IsUpper(s[p + 2])
       /\ WordBoundary(s, p + 2)
    THEN p + 2
    ELSE -1

MatchEnd(regex, s, p) ==
    CASE regex = "FAULTY_OPERATOR_REGEX" -> FAULTY_OPERATOR_REGEX(s, p)
      [] regex = "PARENTHESIS_REGEX" -> PARENTHESIS_REGEX(s, p)
      [] regex = "UNSUPPORTED_SEARCH_FIELD_REGEX" -> UNSUPPORTED_SEARCH_FIELD_REGEX(s, p)

\* re.finditer(regex, s) from offset pos on: the spans of the
\* non-overlapping matches, left to right (no regex here matches empty)
RECURSIVE finditer(_, _, _)
finditer(regex, s, pos) ==
    IF pos > Len(s) THEN <<>>
    ELSE LET e == MatchEnd(regex, s, pos)
         IN  IF e < 0 THEN finditer(regex, s, pos + 1)
             ELSE <<<<pos, e>>>> \o finditer(regex, s, e)

\* s[:start] + replacement + s[end:]
Splice(s, start, end, replacement) ==
    SubSeq(s, 1, start) \o replacement \o SubSeq(s, end + 1, Len(s))

(***************************************************************************)
(* The validators.  A message is [level, msg, pos]; msg keeps the variable *)
(* parts of the text, pos is <<start, end>>, or <<>> where the code stores *)
(* "" or None.                                                             *)
(***************************************************************************)
Message(level, msg, pos) == [level |-> level, msg |-> msg, pos |-> pos]

\* the record of a check call on instance v: its arguments, the string and
\* the list it found, and in "own", for every instance checked so far, the
\* findings its most recent check produced
LintCall(method, v, strict, token_type, previous_token_type, position) ==
    [called |-> TRUE, method |-> method, instance |-> v, strict |-> strict,
     token_type |-> token_type, previous_token_type |-> previous_token_type,
     position |-> position,
     query_str |-> validators[v].query_str,
     messages |-> linter_messages[validators[v].class],
     own |-> [i \in DOMAIN lint_call.own \cup {v} |->
                 IF i = v THEN linter_messages'[validators[v].class]
                 ELSE lint_call.own[i]]]

\* the loop of check_operator over the matches i.. of the string it was
\* called on; st = [query_str, messages]
RECURSIVE check_operator_loop(_, _, _, _)
check_operator_loop(original, matches, i, st) ==
    IF i > Len(matches) THEN st
    ELSE LET start == matches[i][1]
             end == matches[i][2]
             operator == SubSeq(original, start + 1, end)
         IN  check_operator_loop(original, matches, i + 1,
                 IF operator # upper(operator)
                 THEN [query_str |-> Splice(st.query_str, start, end, upper(operator)),
                       messages |-> Append(st.messages,
                           Message("Warning",
                                   <<"Operator automatically capitalized", operator>>,
                                   <<start, end>>))]
                 ELSE st)

\* QueryStringValidator.check_operator on instance v
check_operator(v) ==
    LET self == validators[v]
        r == check_operator_loop(self.query_str,
                 finditer("FAULTY_OPERATOR_REGEX", self.query_str, 0), 1,
                 [query_str |-> self.query_str, messages |-> <<>>])
    IN  /\ self.class = "QueryStringValidator"
        /\ validators' = [validators EXCEPT ![v].query_str = r.query_str]
        /\ linter_messages' = [linter_messages EXCEPT ![self.class] = r.messages]
        /\ lint_call' = LintCall("check_operator", v, FALSE, "", "", <<>>)
        /\ UNCHANGED query_vars

\* QueryStringValidator.check_parenthesis on instance v
check_parenthesis(v) ==
    LET self == validators[v]
        matches == finditer("PARENTHESIS_REGEX", self.query_str, 0)
        open_count == Cardinality({i \in 1..Len(matches) :
                                     self.query_str[matches[i][2]] = "("})
        close_count == Cardinality({i \in 1..Len(matches) :
                                      self.query_str[matches[i][2]] = ")"})
    IN  /\ self.class = "QueryStringValidator"
        /\ linter_messages' = [linter_messages EXCEPT ![self.class] =
               IF open_count # close_count
               THEN <<Message("Fatal",
                              <<"Unbalanced parentheses", open_count, close_count>>,
                              <<>>)>>
               ELSE <<>>]
        /\ lint_call' = LintCall("check_parenthesis", v, FALSE, "", "", <<>>)
        /\ UNCHANGED validators
        /\ UNCHANGED query_vars

\* EBSCOQueryStringValidator.check_search_field_general on instance v
check_search_field_general(v, strict) ==
    LET self == validators[v]
    IN  /\ self.class = "EBSCOQueryStringValidator"
        /\ linter_messages' = [linter_messages EXCEPT ![self.class] =
               IF self.search_field_general # <<>> /\ strict
               THEN <<Message("Warning",
                              <<"Content in Search Fields", self.search_field_general>>,
                              <<>>)>>
               ELSE <<>>]
        /\ lint_call' = LintCall("check_search_field_general", v, strict, "", "", <<>>)
        /\ UNCHANGED validators
        /\ UNCHANGED query_vars

supported_fields ==
    {<<"T", "I">>, <<"A", "U">>, <<"T", "X">>, <<"A", "B">>, <<"S", "O">>,
     <<"S", "U">>, <<"I", "S">>, <<"I", "B">>, <<"D", "E">>, <<"L", "A">>,
     <<"K", "W">>}

\* the loop of filter_search_field over the matches i.. of the string it
\* was called on; st = [modified_query_list, messages]; replies[i] is the
\* supported code the prompt of strict mode ends with for match i
RECURSIVE filter_search_field_loop(_, _, _, _, _, _)
filter_search_field_loop(original, matches, i, strict, replies, st) ==
    IF i > Len(matches) THEN st
    ELSE LET start == matches[i][1]
             end == matches[i][2]
             field == SubSeq(original, start + 1, end)
         IN  filter_search_field_loop(original, matches, i + 1, strict, replies,
                 IF field \notin supported_fields
                 THEN IF strict
                      THEN [st EXCEPT !.modified_query_list =
                                Splice(@, start, end, replies[i])]
                      ELSE [modified_query_list |->
                                Splice(st.modified_query_list, start, end, <<"A", "B">>),
                            messages |-> Append(st.messages,
                                Message("Error",
                                        <<"search-field-unsupported", field>>,
                                        <<start, end>>))]
                 ELSE st)

\* EBSCOQueryStringValidator.filter_search_field on instance v
filter_search_field(v, strict, replies) ==
    LET self == validators[v]
        matches == finditer("UNSUPPORTED_SEARCH_FIELD_REGEX", self.query_str, 0)
        r == filter_search_field_loop(self.query_str, matches, 1, strict, replies,
                 [modified_query_list |-> self.query_str, messages |-> <<>>])
    IN  /\ self.class = "EBSCOQueryStringValidator"
        /\ Len(replies) = Len(matches)
        /\ \A i \in 1..Len(replies) : replies[i] \in supported_fields
        /\ validators' = [validators EXCEPT ![v].query_str = r.modified_query_list]
        /\ linter_messages' = [linter_messages EXCEPT ![self.class] = r.messages]
        /\ lint_call' = LintCall("filter_search_field", v, strict, "", "", <<>>)
        /\ UNCHANGED query_vars

\* table whose FIELD row also admits FIELD
valid_transitions_field_repeats ==
    [FIELD              |-> <<"SEARCH_TERM", "PARENTHESIS_OPEN", "FIELD">>,
     SEARCH_TERM        |-> <<"SEARCH_TERM", "LOGIC_OPERATOR", "PROXIMITY_OPERATOR",
                              "PARENTHESIS_CLOSED">>,
     LOGIC_OPERATOR     |-> <<"SEARCH_TERM", "FIELD", "PARENTHESIS_OPEN">>,
     PROXIMITY_OPERATOR |-> <<"SEARCH_TERM", "PARENTHESIS_OPEN", "FIELD">>,
     PARENTHESIS_OPEN   |-> <<"FIELD", "SEARCH_TERM", "PARENTHESIS_OPEN">>,
     PARENTHESIS_CLOSED |-> <<"PARENTHESIS_CLOSED", "LOGIC_OPERATOR",
                              "PROXIMITY_OPERATOR">>]

valid_transitions ==
    [FIELD              |-> <<"SEARCH_TERM", "PARENTHESIS_OPEN">>,
     SEARCH_TERM        |-> <<"SEARCH_TERM", "LOGIC_OPERATOR", "PROXIMITY_OPERATOR",
                              "PARENTHESIS_CLOSED">>,
     LOGIC_OPERATOR     |-> <<"SEARCH_TERM", "FIELD", "PARENTHESIS_OPEN">>,
     PROXIMITY_OPERATOR |-> <<"SEARCH_TERM", "PARENTHESIS_OPEN", "FIELD">>,
     PARENTHESIS_OPEN   |-> <<"FIELD", "SEARCH_TERM", "PARENTHESIS_OPEN">>,
     PARENTHESIS_CLOSED |-> <<"PARENTHESIS_CLOSED", "LOGIC_OPERATOR",
                              "PROXIMITY_OPERATOR">>]

\* EBSCOQueryStringValidator.validate_token_position on instance v;
\* previous_token_type "None" and position <<>> stand for None
validate_token_position(v, token_type, previous_token_type, position) ==
    LET self == validators[v]
        allowed == IF previous_token_type \in DOMAIN valid_transitions
                   THEN valid_transitions[previous_token_type]
                   ELSE <<>>
    IN  /\ self.class = "EBSCOQueryStringValidator"
        /\ linter_messages' = [linter_messages EXCEPT ![self.class] =
               IF previous_token_type = "None" THEN <<>>
               ELSE IF token_type \notin Range(allowed)
               THEN <<Message("Error",
                              <<"Invalid token sequence", previous_token_type, token_type>>,
                              position)>>
               ELSE <<>>]
        /\ lint_call' = LintCall("validate_token_position", v, FALSE, token_type,
                                 previous_token_type, position)
        /\ UNCHANGED validators
        /\ UNCHANGED query_vars

(***************************************************************************)
(* Specifications of the validators                                        *)
(***************************************************************************)
RECURSIVE Concat(_)
Concat(pieces) == IF pieces = <<>> THEN <<>> ELSE Head(pieces) \o Concat(Tail(pieces))

\* the raw strings made of at most n of the given pieces
StringsOf(pieces, n) == {Concat(ps) : ps \in SeqsUpTo(pieces, n)}

OperatorPieces ==
    {<<"a", "n", "d">>, <<"a", "N", "d">>, <<"A", "N", "D">>,
     <<"o", "r">>, <<"O", "R">>, <<"n", "o", "t">>, <<"N", "o", "t">>,
     <<" ">>, <<"x">>, <<"1">>, <<"(">>, <<")">>}

FieldPieces ==
    {<<"T", "I">>, <<"A", "B">>, <<"O", "R">>, <<"X", "Y">>, <<"S", "1">>,
     <<"Z">>, <<" ">>, <<"x">>, <<"(">>}

GeneralFields == {<<>>, <<"T", "I">>}

\* the codes typed at the prompt of strict mode that end its loop
StrictReplies == {<<"T", "I">>, <<"K", "W">>}

TokenTypes ==
    {"FIELD", "SEARCH_TERM", "LOGIC_OPERATOR", "PROXIMITY_OPERATOR",
     "PARENTHESIS_OPEN", "PARENTHESIS_CLOSED"}

Positions == {<<>>, <<0, 2>>}

Validator(class, query_str, search_field_general) ==
    [class |-> class, query_str |-> query_str,
     search_field_general |-> search_field_general]

LintInit(class, strings) ==
    /\ QueryInit
    /\ \E query_str \in strings, search_field_general \in GeneralFields :
           validators = <<Validator(class, query_str, search_field_general)>>
    /\ linter_messages = NoMessages
    /\ lint_call = NoLintCall

\* QueryStringValidator: check_operator and check_parenthesis
InitOperator ==
    LintInit("QueryStringValidator", StringsOf(OperatorPieces, MaxOperatorPieces))

CheckOperator == \E v \in 1..Len(validators) : check_operator(v)

CheckParenthesis == \E v \in 1..Len(validators) : check_parenthesis(v)

NextOperator == CheckOperator \/ CheckParenthesis

SpecOperator == InitOperator /\ [][NextOperator]_vars

\* EBSCOQueryStringValidator: the search-field checks
InitField ==
    LintInit("EBSCOQueryStringValidator", StringsOf(FieldPieces, MaxFieldPieces))

CheckSearchFieldGeneral ==
    \E v \in 1..Len(validators), strict \in BOOLEAN : check_search_field_general(v, strict)

\* strict mode prompts once per unsupported match; the reply that ends the
\* prompt loop of match i is replies[i] (unused for the other matches and
\* in non-strict mode)
FilterSearchField ==
    \E v \in 1..Len(validators), strict \in BOOLEAN :
        LET n == Len(finditer("UNSUPPORTED_SEARCH_FIELD_REGEX",
                              validators[v].query_str, 0))
        IN  \E replies \in IF strict THEN [1..n -> StrictReplies]
                                    ELSE {[i \in 1..n |-> <<"A", "B">>]} :
                filter_search_field(v, strict, replies)

NextField == CheckSearchFieldGeneral \/ FilterSearchField

SpecField == InitField /\ [][NextField]_vars

\* EBSCOQueryStringValidator: the token sequence check
TokenStrings == {<<>>, <<"T", "I">>, <<"X", "Y">>}

InitToken == LintInit("EBSCOQueryStringValidator", TokenStrings)

ValidateTokenPosition ==
    \E v \in 1..Len(validators), token_type \in TokenTypes,
       previous_token_type \in TokenTypes \cup {"None"}, position \in Positions :
        validate_token_position(v, token_type, previous_token_type, position)

NextToken == ValidateTokenPosition

SpecToken == InitToken /\ [][NextToken]_vars

\* several instances of both classes, all five checks
SharedValidators ==
    {Validator("QueryStringValidator", <<"o", "r", "(">>, <<>>),
     Validator("EBSCOQueryStringValidator", <<"X", "Y">>, <<"T", "I">>)}

InitShared ==
    /\ QueryInit
    /\ \E n \in 1..MaxInstances : validators \in [1..n -> SharedValidators]
    /\ linter_messages = NoMessages
    /\ lint_call = NoLintCall

ValidateTokenPositionShared ==
    \E v \in 1..Len(validators), token_type \in {"SEARCH_TERM", "LOGIC_OPERATOR"},
       previous_token_type \in {"None", "LOGIC_OPERATOR"} :
        validate_token_position(v, token_type, previous_token_type, <<0, 2>>)

NextShared ==
    \/ CheckOperator
    \/ CheckParenthesis
    \/ CheckSearchFieldGeneral
    \/ FilterSearchField
    \/ ValidateTokenPositionShared

SpecShared == InitShared /\ [][NextShared]_vars

(***************************************************************************)
(* Claims about Query construction (specification Spec)                    *)
(***************************************************************************)
RECURSIVE Preorder(_, _)
RECURSIVE PreorderAll(_, _, _)
\* the nodes met on a walk of the tree below node, one entry per path
Preorder(h, node) == <<node>> \o PreorderAll(h, h[node].children, 1)

PreorderAll(h, roots, i) ==
    IF i > Len(roots) THEN <<>>
    ELSE Preorder(h, roots[i]) \o PreorderAll(h, roots, i + 1)

NoDuplicates(s) == \A i, j \in 1..Len(s) : s[i] = s[j] => i = j

LastNestedRoots == [i \in 1..Len(last.nested_queries) |-> queries[last.nested_queries[i]]]

\* C1: every Node of a Query whose constructor returned is reachable from
\* the root through exactly one path, and a constructor call whose
\* nested_queries put one Node into the new tree more than once raises.
C1_NoNodeTwice ==
    /\ \A q \in 1..Len(queries) : NoDuplicates(Preorder(nodes, queries[q]))
    /\ (last.called /\ ~NoDuplicates(PreorderAll(nodes, LastNestedRoots, 1)))
           => last.raised

\* a call that listed a Query together with another Query that contains it
\* has raised, and a Query nested two levels deep has been constructed
C1_Witness ==
    /\ last.called /\ last.raised
    /\ Len(last.nested_queries) = 2
    /\ last.nested_queries[1] # last.nested_queries[2]
    /\ queries[last.nested_queries[1]] \in
           Range(nodes[queries[last.nested_queries[2]]].children)

\* C2: a construction whose nested queries are shared with no other
\* construction never raises, and a construction that is handed a Query
\* already handed to an earlier construction raises.
C2_SharedNestedRaises ==
    last.called =>
        /\ (/\ NoDuplicates(last.nested_queries)
            /\ Range(last.nested_queries) \cap last.passed_before = {})
               => ~last.raised
        /\ (Range(last.nested_queries) \cap last.passed_before # {})
               => last.raised

\* C3: between constructor calls, every Node of every constructed Query
\* has marked = false.
C3_MarksCleared ==
    \A q \in 1..Len(queries) :
        \A n \in Reachable(nodes, queries[q]) : ~nodes[n].marked

\* C4: after a successful construction the root has one term node per
\* search term, in order and tagged with search_field, followed by the root
\* Node of each nested query, in order.
C4_RootChildren ==
    (last.called /\ ~last.raised) =>
        LET root == queries[Len(queries)]
            ch   == nodes[root].children
            nt   == Len(last.search_terms)
        IN  /\ nodes[root].value = last.operator
            /\ nodes[root].operator
            /\ Len(ch) = nt + Len(last.nested_queries)
            /\ \A i \in 1..nt :
                   /\ ~nodes[ch[i]].operator
                   /\ nodes[ch[i]].value = last.search_terms[i]
                   /\ nodes[ch[i]].search_field = last.search_field
                   /\ nodes[ch[i]].children = <<>>
            /\ \A j \in 1..Len(last.nested_queries) :
                   ch[nt + j] = queries[last.nested_queries[j]]

\* a construction from two search terms and two nested queries has returned
C4_Witness ==
    /\ last.called /\ ~last.raised
    /\ Len(last.search_terms) = 2
    /\ Len(last.nested_queries) = 2
    /\ Len(nodes[queries[Len(queries)]].children) = 4

(***************************************************************************)
(* Claims about the serializers (specification SpecSerial)                 *)
(***************************************************************************)
IsTerm(n, value, search_field) ==
    /\ ~nodes[n].operator
    /\ nodes[n].value = value
    /\ nodes[n].search_field = search_field

PrintedRoot == queries[printed.query]

\* the tree AND(terms=['cancer'], field 'Abstract',
\*              nested=[OR(terms=['lung','breast'], field 'Title')])
IsCancerExample(root) ==
    LET ch == nodes[root].children
    IN  /\ nodes[root].value = "AND"
        /\ Len(ch) = 2
        /\ IsTerm(ch[1], "cancer", "Abstract")
        /\ nodes[ch[2]].operator
        /\ nodes[ch[2]].value = "OR"
        /\ Len(nodes[ch[2]].children) = 2
        /\ IsTerm(nodes[ch[2]].children[1], "lung", "Title")
        /\ IsTerm(nodes[ch[2]].children[2], "breast", "Title")

\* C5: to_string('wos') of AND(cancer/Abstract, OR(lung, breast / Title)) is
\* exactly 'AB=(cancer) AND (TI=(lung) OR TI=(breast))'.
C5_WosExample ==
    (printed.called /\ printed.syntax = "wos" /\ IsCancerExample(PrintedRoot)) =>
        /\ ~printed.raised
        /\ printed.str = <<"AB", "=", "(", "cancer", ")", " ", "AND", " ", "(",
                           "TI", "=", "(", "lung", ")", " ", "OR", " ",
                           "TI", "=", "(", "breast", ")", ")">>

\* the PubMed field-code table of the specification
PubmedFieldCode ==
    [s \in {"Author Keywords", "Abstract", "Author", "DOI", "ISBN/ISSN",
            "Publisher", "Title"} |->
        CASE s = "Author Keywords" -> "ot"
          [] s = "Abstract" -> "tiab"
          [] s = "Author" -> "au"
          [] s = "DOI" -> "aid"
          [] s = "ISBN/ISSN" -> "isbn"
          [] s = "Publisher" -> "pubn"
          [] s = "Title" -> "ti"]

\* C6: to_string('pubmed') of a Query built from exactly one search term
\* and no nested query is exactly 'term[fieldcode]'.
C6_PubmedSingleTerm ==
    LET ch == nodes[PrintedRoot].children
    IN  (/\ printed.called /\ printed.syntax = "pubmed"
         /\ Len(ch) = 1 /\ ~nodes[ch[1]].operator) =>
            /\ ~printed.raised
            /\ printed.str = <<nodes[ch[1]].value, "[",
                               PubmedFieldCode[nodes[ch[1]].search_field], "]">>

Balanced(str) == Count("(", str) = Count(")", str)

\* C7: in to_string('ieee') of an operator node whose term children are
\* immediately followed by a nested operator child (itself a group of two
\* or more operands), the output accumulated
\* when the nested operator's output begins has as many ')' as '(', and so
\* has the complete output.
C7_IeeeTermRunClosed ==
    LET ch == nodes[PrintedRoot].children
    IN  (printed.called /\ printed.syntax = "ieee") =>
            \A i \in 1..(Len(ch) - 1) :
                (/\ ~nodes[ch[i]].operator /\ nodes[ch[i + 1]].operator
                 /\ Len(nodes[ch[i + 1]].children) >= 2) =>
                    /\ ~printed.raised
                    /\ Balanced(ieee_loop(nodes, PrintedRoot, 1, i, <<>>))
                    /\ Balanced(printed.str)

(***************************************************************************)
(* Claims about the validators                                             *)
(***************************************************************************)
CalledOn == validators[lint_call.instance]
Findings == linter_messages[CalledOn.class]

\* the transition table of the specification: previous -> allowed next
AllowedSuccessors ==
    [FIELD              |-> {"SEARCH_TERM", "PARENTHESIS_OPEN"},
     SEARCH_TERM        |-> {"SEARCH_TERM", "LOGIC_OPERATOR", "PROXIMITY_OPERATOR",
                             "PARENTHESIS_CLOSED"},
     LOGIC_OPERATOR     |-> {"SEARCH_TERM", "FIELD", "PARENTHESIS_OPEN"},
     PROXIMITY_OPERATOR |-> {"SEARCH_TERM", "PARENTHESIS_OPEN", "FIELD"},
     PARENTHESIS_OPEN   |-> {"FIELD", "SEARCH_TERM", "PARENTHESIS_OPEN"},
     PARENTHESIS_CLOSED |-> {"PARENTHESIS_CLOSED", "LOGIC_OPERATOR",
                             "PROXIMITY_OPERATOR"}]

\* C8: validate_token_position leaves exactly one Error carrying the given
\* position if there is a previous token type and token_type is not among
\* its allowed successors, and no message otherwise.
C8_TokenPosition ==
    (lint_call.called /\ lint_call.method = "validate_token_position") =>
        IF /\ lint_call.previous_token_type # "None"
           /\ lint_call.token_type \notin AllowedSuccessors[lint_call.previous_token_type]
        THEN /\ Len(Findings) = 1
             /\ Findings[1].level = "Error"
             /\ Findings[1].pos = lint_call.position
        ELSE Findings = <<>>

\* LOGIC_OPERATOR after LOGIC_OPERATOR has been checked, on a list that held
\* the Error of an earlier check, and has left one Error
C8_Witness ==
    /\ lint_call.called /\ lint_call.method = "validate_token_position"
    /\ lint_call.token_type = "LOGIC_OPERATOR"
    /\ lint_call.previous_token_type = "LOGIC_OPERATOR"
    /\ lint_call.position = <<0, 2>>
    /\ lint_call.messages # <<>>
    /\ Len(Findings) = 1

\* s[a+1..b] is a maximal run of word characters
IsWholeWord(s, a, b) ==
    /\ 0 <= a /\ a < b /\ b <= Len(s)
    /\ \A k \in (a + 1)..b : IsWordChar(s[k])
    /\ (a = 0 \/ ~IsWordChar(s[a]))
    /\ (b = Len(s) \/ ~IsWordChar(s[b + 1]))

Spans(s) == {<<a, b>> : a \in 0..Len(s), b \in 0..Len(s)}

\* the word-bounded occurrences of and / or / not, in any casing
OperatorOccurrences(s) ==
    {sp \in Spans(s) :
        /\ IsWholeWord(s, sp[1], sp[2])
        /\ [k \in 1..(sp[2] - sp[1]) |-> CharLower(s[sp[1] + k])]
               \in {<<"a", "n", "d">>, <<"o", "r">>, <<"n", "o", "t">>}}

\* those that are not fully upper-case
FaultyOccurrences(s) ==
    {sp \in OperatorOccurrences(s) : \E k \in (sp[1] + 1)..sp[2] : IsLower(s[k])}

Covered(spans, k) == \E sp \in spans : sp[1] < k /\ k <= sp[2]

\* one finding of the given level per span, and no other finding
OnePerSpan(findings, spans, level) ==
    /\ Len(findings) = Cardinality(spans)
    /\ \A i \in 1..Len(findings) : findings[i].level = level /\ findings[i].pos \in spans
    /\ \A sp \in spans : \E i \in 1..Len(findings) : findings[i].pos = sp

\* C9: check_operator upper-cases exactly the word-bounded and/or/not that
\* are not fully upper-case, in place, leaves every other character alone
\* and leaves one Warning with the span of each; the result holds no such
\* occurrence, so a further call changes nothing and leaves no Warning.
C9_CheckOperator ==
    (lint_call.called /\ lint_call.method = "check_operator") =>
        LET old == lint_call.query_str
            new == CalledOn.query_str
            faulty == FaultyOccurrences(old)
        IN  /\ Len(new) = Len(old)
            /\ \A k \in 1..Len(old) :
                   new[k] = IF Covered(faulty, k) THEN CharUpper(old[k]) ELSE old[k]
            /\ OnePerSpan(Findings, faulty, "Warning")
            /\ FaultyOccurrences(new) = {}
            /\ (faulty = {} => new = old /\ Findings = <<>>)

\* check_operator has run on the result of a run that rewrote two
\* operators: it changed nothing and left no Warning
C9_Witness ==
    /\ lint_call.called /\ lint_call.method = "check_operator"
    /\ Len(lint_call.messages) = 2
    /\ \A i \in 1..2 : lint_call.messages[i].level = "Warning"
    /\ Cardinality(OperatorOccurrences(lint_call.query_str)) = 2
    /\ CalledOn.query_str = lint_call.query_str
    /\ Findings = <<>>

\* the supported EBSCO field codes of the specification
SupportedCodes ==
    {<<"T", "I">>, <<"A", "U">>, <<"T", "X">>, <<"A", "B">>, <<"S", "O">>,
     <<"S", "U">>, <<"I", "S">>, <<"I", "B">>, <<"D", "E">>, <<"L", "A">>,
     <<"K", "W">>}

\* the word-bounded tokens of two upper-case letters other than OR
FieldTokens(s) ==
    {sp \in Spans(s) :
        /\ sp[2] = sp[1] + 2
        /\ IsWholeWord(s, sp[1], sp[2])
        /\ IsUpper(s[sp[1] + 1]) /\ IsUpper(s[sp[2]])
        /\ <<s[sp[1] + 1], s[sp[2]]>> # <<"O", "R">>}

UnsupportedTokens(s) ==
    {sp \in FieldTokens(s) : <<s[sp[1] + 1], s[sp[2]]>> \notin SupportedCodes}

\* C10: non-strict filter_search_field replaces every unsupported field
\* token by AB at the same span, leaves one Error with that span for each,
\* changes nothing else; afterwards every field token is supported, so a
\* second non-strict run leaves no Error.
C10_FilterSearchField ==
    (lint_call.called /\ lint_call.method = "filter_search_field" /\ ~lint_call.strict) =>
        LET old == lint_call.query_str
            new == CalledOn.query_str
            bad == UnsupportedTokens(old)
        IN  /\ Len(new) = Len(old)
            /\ \A k \in 1..Len(old) :
                   new[k] = IF \E sp \in bad : k = sp[1] + 1 THEN "A"
                            ELSE IF \E sp \in bad : k = sp[2] THEN "B"
                            ELSE old[k]
            /\ OnePerSpan(Findings, bad, "Error")
            /\ UnsupportedTokens(new) = {}
            /\ (bad = {} => new = old /\ Findings = <<>>)

\* a non-strict run has followed a non-strict run that replaced an
\* unsupported code and kept an OR: it left no Error
C10_Witness ==
    /\ lint_call.called /\ lint_call.method = "filter_search_field" /\ ~lint_call.strict
    /\ Len(lint_call.messages) = 1
    /\ lint_call.messages[1].level = "Error"
    /\ Cardinality(FieldTokens(lint_call.query_str)) = 1
    /\ \E sp \in Spans(lint_call.query_str) :
           /\ IsWholeWord(lint_call.query_str, sp[1], sp[2])
           /\ SubSeq(lint_call.query_str, sp[1] + 1, sp[2]) = <<"O", "R">>
    /\ CalledOn.query_str = lint_call.query_str
    /\ Findings = <<>>

\* C11: the linter_messages list read through an instance holds exactly
\* the findings of the most recent check invoked on that instance, whatever
\* checks were invoked on other instances since.
C11_OwnFindings ==
    \A i \in DOMAIN lint_call.own :
        linter_messages[validators[i].class] = lint_call.own[i]

\* the keys of the WoS and of the PubMed field-code table of the specification
MappedFields ==
    {"Author Keywords", "Abstract", "Author", "DOI", "ISBN/ISSN", "Publisher", "Title"}

HasUnmappedTerm(root) ==
    \E n \in Reachable(nodes, root) :
        ~nodes[n].operator /\ nodes[n].search_field \notin MappedFields

\* C12: to_string('wos') and to_string('pubmed') of a tree that contains a
\* term node whose search field is in no field-code table abort with an
\* error and return no string.
C12_UnmappedFieldRaises ==
    (/\ printed.called /\ printed.syntax \in {"wos", "pubmed"}
     /\ HasUnmappedTerm(PrintedRoot)) =>
        printed.raised /\ printed.str = <<>>

====
